---- MODULE Spec2Model ----
(***************************************************************************)
(* Model of reference_code_maintenance.py: the orchestrator (main), the    *)
(* mapping lookup and process fan-out (handle_undefined_codes), the        *)
(* detector run in each worker process (get_undefined_codes), the          *)
(* multiprocessing.Queue between the workers and the supervisor, and the   *)
(* dimension updater (update_dim_table).                                   *)
(***************************************************************************)
EXTENDS Integers, Sequences, FiniteSets, TLC

(***************************************************************************)
(* Bounds of the model.                                                    *)
(***************************************************************************)
\* longest process_params list returned by get_process_params
MaxEntries == 2
\* most rows of the code_source table
MaxMappings == 3
\* most rows of the fact table whose column is enumerated exhaustively
MaxFactRows == 2
\* most rows of the dimension table enumerated exhaustively
MaxRefRows == 2
\* capacity of the OS pipe under a multiprocessing.Queue, counted in codes
PipeCap == 2

\* codes in the batch given to update_dim_table when it is run by itself
MaxBatch == 2

(***************************************************************************)
(* SQL values.  Oracle (nvl, sysdate) stores the empty string as NULL.     *)
(***************************************************************************)
NULL == ""

nvl(v, d) == IF v = NULL THEN d ELSE v

Min(a, b) == IF a < b THEN a ELSE b

substr(s, start, n) ==
    IF s = NULL \/ Len(s) < start THEN NULL
    ELSE SubSeq(s, start, Min(Len(s), start + n - 1))

\* SQL comparisons are three-valued: a comparison with NULL is never true
SqlEq(a, b) == a # NULL /\ b # NULL /\ a = b
SqlNeq(a, b) == a # NULL /\ b # NULL /\ a # b

Range(s) == {s[i] : i \in 1..Len(s)}

SeqsUpTo(S, n) == UNION {[1..m -> S] : m \in 0..n}

\* all orderings of a finite set, as sequences without repetition
Orderings(S) ==
    {s \in [1..Cardinality(S) -> S] : \A i, j \in 1..Cardinality(S) : s[i] = s[j] => i = j}

(***************************************************************************)
(* The run parameters handed to main by get_process_params.                *)
(***************************************************************************)
EmptyParams == "{}"
KeywordParams == "{\"foo\":\"bar\"}"
MalformedParams == "{foo"

ParamTexts == {EmptyParams, KeywordParams, MalformedParams}

\* json.loads: the parsed object as a set of key/value pairs, or the
\* exception raised
json_loads(text) ==
    CASE text = EmptyParams -> [exc |-> "", obj |-> {}]
      [] text = KeywordParams -> [exc |-> "", obj |-> {<<"foo", "bar">>}]
      [] OTHER -> [exc |-> "ValueError", obj |-> {}]

ProcessParamEntries ==
    { [run_flag |-> "Y", params |-> EmptyParams],
      [run_flag |-> "Y", params |-> KeywordParams],
      [run_flag |-> "Y", params |-> MalformedParams],
      [run_flag |-> "N", params |-> EmptyParams],
      [run_flag |-> "N", params |-> MalformedParams] }

(***************************************************************************)
(* The schema of the warehouse and the rows code_source may hold.          *)
(***************************************************************************)
FactTables == {"orders", "claims", "items", "T_orders"}
RefTables == {"status_dim", "type_dim"}

FactColumn(t) == IF t = "items" THEN "type_code" ELSE "status_code"

SourceRow(t, c, rt, flag) ==
    [table_name |-> t, column_name |-> c, ref_table_name |-> rt,
     ref_code_column_name |-> "code", ref_desc_column_name |-> "descr",
     active_flag |-> flag]

CodeSourceRows ==
    { SourceRow("orders", "status_code", "status_dim", NULL),
      SourceRow("claims", "status_code", "status_dim", "Y"),
      SourceRow("items", "type_code", "type_dim", "Y"),
      SourceRow("ghost", "status_code", "status_dim", "Y"),
      SourceRow("T_orders", "status_code", "status_dim", "Y"),
      SourceRow("claims", "status_code", "status_dim", "N") }

FactRow(t, v) == [c \in {FactColumn(t)} |-> v]
FactRows(t, vs) == [i \in 1..Len(vs) |-> FactRow(t, vs[i])]

RefRow(code, descr) == [c \in {"code", "descr"} |-> IF c = "code" THEN code ELSE descr]
RefRows(codes) == [i \in 1..Len(codes) |-> RefRow(codes[i], "known")]

VARIABLES
    process_params,  \* main: the (run_flag, params) list
    code_source,     \* the code_source table
    fact,            \* fact tables: name -> rows
    ref,             \* dimension tables: name -> rows
    unique,          \* dimension tables: name -> code column is unique
    undefined_log,   \* the undefined_log table
    pc,              \* where the orchestrating process is
    error,           \* the exception that ended main and the line raising it
    e,               \* main: index of the current process_params entry
    rows,            \* handle_undefined_codes: rows fetched from code_source
    procs,           \* per invocation: the worker processes started
    q,               \* per invocation: complete messages in the queue's pipe
    wlock,           \* per invocation: worker blocked half-way writing, or 0
    undef_codes,     \* update_dim_table: the message being handled
    j,               \* update_dim_table: index of bad_code in bad_codes
    s,               \* update_dim_table: 1 = bad_sql, 2 = log_sql
    calls,           \* history: pipeline invocations begun
    updated,         \* history: messages passed to update_dim_table
    attempts         \* history: insert statements executed

vars == <<process_params, code_source, fact, ref, unique, undefined_log, pc,
          error, e, rows, procs, q, wlock, undef_codes, j, s, calls, updated,
          attempts>>

db == <<code_source, fact, ref, unique, undefined_log>>
udt == <<undef_codes, j, s>>
hist == <<calls, updated, attempts>>

NoError == [exc |-> "", line |-> 0]
NoBatch == [bad_codes |-> <<>>]
NoMsg == [inv |-> 0, src |-> 0, undef_codes |-> NoBatch]


(***************************************************************************)
(* utilities.db_interface.exec_sql: a statement the database rejects       *)
(* raises its error to the caller.                                         *)
(***************************************************************************)
exec_sql(rejected) == IF rejected THEN "DatabaseError" ELSE ""

(***************************************************************************)
(* handle_undefined_codes, lines 29-37: the mapping lookup.                *)
(***************************************************************************)
MappingRecord(r) ==
    [table_name |-> r.table_name, column_name |-> r.column_name,
     ref_table_name |-> r.ref_table_name,
     ref_code_column_name |-> r.ref_code_column_name,
     ref_desc_column_name |-> r.ref_desc_column_name]

Selected(r) ==
    /\ nvl(r.active_flag, "Y") = "Y"
    /\ SqlNeq(substr(r.table_name, 1, 2), "T_")

RECURSIVE SelectRows(_)
SelectRows(cs) ==
    IF cs = <<>> THEN <<>>
    ELSE IF Selected(Head(cs)) THEN <<MappingRecord(Head(cs))>> \o SelectRows(Tail(cs))
    ELSE SelectRows(Tail(cs))

(***************************************************************************)
(* get_undefined_codes, lines 64-76: the anti-join query.                  *)
(***************************************************************************)
\* the statement fails when it names a table or column that does not exist
QueryFails(row) ==
    \/ row.table_name \notin DOMAIN fact
    \/ row.column_name # FactColumn(row.table_name)
    \/ row.ref_table_name \notin DOMAIN ref
    \/ row.ref_code_column_name # "code"

\* "t left join r on t.col = r.code": for each fact row, in order, one
\* joined row <<t.col, r.code>> per matching dimension row, or one with a
\* NULL r.code when none matches
RECURSIVE LeftJoin(_, _, _, _)
LeftJoin(t, r, col, rcol) ==
    IF t = <<>> THEN <<>>
    ELSE LET v == Head(t)[col]
             m == SelectSeq(r, LAMBDA x : SqlEq(v, x[rcol]))
         IN  (IF m = <<>> THEN << <<v, NULL>> >>
              ELSE [n \in 1..Len(m) |-> <<v, m[n][rcol]>>])
             \o LeftJoin(Tail(t), r, col, rcol)

\* the where clause without "t.col is not null"
Where_any_fact_value(joined) == SelectSeq(joined, LAMBDA p : p[2] = NULL)

\* "where t.col is not null and r.code is null"
Where(joined) == SelectSeq(joined, LAMBDA p : p[1] # NULL /\ p[2] = NULL)

\* "select distinct t.col": every value once, in an order the database picks
SelectDistinct(joined) == Orderings({joined[n][1] : n \in 1..Len(joined)})

\* line 76: the lists cur.fetchall() can return
Fetchall(row) ==
    SelectDistinct(Where(LeftJoin(fact[row.table_name], ref[row.ref_table_name],
                                  row.column_name, row.ref_code_column_name)))

\* lines 79-83: the dictionary put on the queue
Batch(row, bad_codes) ==
    [table_name |-> row.table_name,
     ref_table_name |-> row.ref_table_name,
     ref_code_column_name |-> row.ref_code_column_name,
     ref_desc_column_name |-> row.ref_desc_column_name,
     bad_codes |-> bad_codes]

(***************************************************************************)
(* update_dim_table, lines 98-107: the two statements.                     *)
(***************************************************************************)
Descript(bad_code) == "undefined code ('" \o bad_code \o "') from client"

\* bad_sql with its two values in the wrong order
DimRow_values_swapped(b, bad_code) ==
    [c \in {b.ref_code_column_name, b.ref_desc_column_name} |->
        IF c = b.ref_code_column_name THEN Descript(bad_code) ELSE bad_code]

\* bad_sql without the code column: the row has the description only
DimRow_code_omitted(b, bad_code) ==
    [c \in {b.ref_code_column_name, b.ref_desc_column_name} |->
        IF c = b.ref_code_column_name THEN NULL ELSE Descript(bad_code)]

DimRow(b, bad_code) ==
    [c \in {b.ref_code_column_name, b.ref_desc_column_name} |->
        IF c = b.ref_code_column_name THEN bad_code ELSE Descript(bad_code)]

\* line 104: sysdate, as the number of the statement being executed
sysdate == Len(attempts) + 1

\* log_sql naming the fact table of the batch instead of its reference table
LogRow_fact_table(b, bad_code) ==
    [table_name |-> b.table_name, code_column |-> b.ref_code_column_name,
     desc_column |-> b.ref_desc_column_name, code |-> bad_code,
     descript |-> Descript(bad_code), timestamp |-> sysdate]

LogRow(b, bad_code) ==
    [table_name |-> b.ref_table_name, code_column |-> b.ref_code_column_name,
     desc_column |-> b.ref_desc_column_name, code |-> bad_code,
     descript |-> Descript(bad_code), timestamp |-> sysdate]

\* the dimension insert violates a unique constraint on the code column
InsertFails(b, bad_code) ==
    /\ unique[b.ref_table_name]
    /\ \E i \in 1..Len(ref[b.ref_table_name]) :
          ref[b.ref_table_name][i][b.ref_code_column_name] = bad_code

(***************************************************************************)
(* multiprocessing.Queue: put() leaves the message in the worker's buffer, *)
(* the worker's feeder thread writes it to the pipe, and the worker does   *)
(* not terminate before its buffer is flushed.                             *)
(***************************************************************************)
Size(msg) == Len(msg.undef_codes.bad_codes)

RECURSIVE Used(_)
Used(pipe) == IF pipe = <<>> THEN 0 ELSE Size(Head(pipe)) + Used(Tail(pipe))

\* q.empty(): nothing readable in the pipe
QEmpty(i) == q[i] = <<>> /\ wlock[i] = 0

Terminated == {"done", "failed"}


(***************************************************************************)
(* Initial states.                                                         *)
(***************************************************************************)
FactData ==
    [t \in FactTables |->
        CASE t = "orders" -> FactRows(t, <<"A", "Z", "Z", NULL, "Y">>)
          [] t = "claims" -> FactRows(t, <<"Z", "A">>)
          [] t = "items" -> FactRows(t, <<"A", NULL>>)
          [] OTHER -> FactRows(t, <<"Q">>)]

NoRepeat(sq) == \A a, b \in 1..Len(sq) : sq[a] = sq[b] => a = b

InitControl ==
    /\ pc = "main"
    /\ error = NoError
    /\ e = 1
    /\ rows = <<>>
    /\ procs = [i \in 1..Len(process_params) |-> <<>>]
    /\ q = [i \in 1..Len(process_params) |-> <<>>]
    /\ wlock = [i \in 1..Len(process_params) |-> 0]
    /\ undef_codes = NoMsg
    /\ j = 0
    /\ s = 0
    /\ calls = <<>>
    /\ updated = <<>>
    /\ attempts = <<>>
    /\ undefined_log = <<>>

\* the dimension tables of the fixed warehouse: status_dim may know Y
\* already, and may or may not have a unique code column
InitWarehouse ==
    /\ fact = FactData
    /\ \E known \in {<<"A">>, <<"A", "Y">>} :
          ref = [t \in RefTables |-> IF t = "status_dim" THEN RefRows(known)
                                     ELSE RefRows(<<"A">>)]
    /\ \E u \in BOOLEAN : unique = [t \in RefTables |-> t = "type_dim" \/ u]

\* any run parameters, over an empty code_source or one of two mappings
\* that share a dimension table
InitEntries ==
    /\ process_params \in SeqsUpTo(ProcessParamEntries, MaxEntries)
    /\ code_source \in
          { <<>>,
            << SourceRow("orders", "status_code", "status_dim", NULL),
               SourceRow("claims", "status_code", "status_dim", "Y") >> }
    /\ InitWarehouse

\* one enabled entry, over any code_source
InitMappings ==
    /\ process_params = <<[run_flag |-> "Y", params |-> EmptyParams]>>
    /\ code_source \in {cs \in SeqsUpTo(CodeSourceRows, MaxMappings) : NoRepeat(cs)}
    /\ InitWarehouse

\* one run over one mapping, any fact column and any dimension table
InitColumns ==
    /\ process_params = <<[run_flag |-> "Y", params |-> EmptyParams]>>
    /\ code_source = <<SourceRow("orders", "status_code", "status_dim", "Y")>>
    /\ \E vs \in SeqsUpTo({NULL, "A", "Z"}, MaxFactRows) :
          fact = [FactData EXCEPT !["orders"] = FactRows("orders", vs)]
    /\ \E known \in SeqsUpTo({NULL, "A", "Z"}, MaxRefRows) :
          ref = [t \in RefTables |-> IF t = "status_dim" THEN RefRows(known)
                                     ELSE RefRows(<<"A">>)]
    /\ unique = [t \in RefTables |-> FALSE]

Init == (InitEntries \/ InitMappings \/ InitColumns) /\ InitControl

(***************************************************************************)
(* main, lines 140-143.                                                    *)
(***************************************************************************)
\* an exception nothing catches ends main; the traceback names the line
Raise(exc, line) ==
    /\ pc' = "error"
    /\ error' = [exc |-> exc, line |-> line]

\* the for loop is exhausted: main returns
main_return ==
    /\ pc = "main"
    /\ e > Len(process_params)
    /\ pc' = "exit"
    /\ UNCHANGED <<process_params, db, error, e, rows, procs, q, wlock, udt, hist>>

\* run_flag is not 'Y': next entry
main_skip ==
    /\ pc = "main"
    /\ e <= Len(process_params)
    /\ process_params[e].run_flag # "Y"
    /\ e' = e + 1
    /\ UNCHANGED <<process_params, db, pc, error, rows, procs, q, wlock, udt, hist>>

\* json.loads raises
main_loads_error ==
    /\ pc = "main"
    /\ e <= Len(process_params)
    /\ process_params[e].run_flag = "Y"
    /\ json_loads(process_params[e].params).exc # ""
    /\ Raise(json_loads(process_params[e].params).exc, 142)
    /\ UNCHANGED <<process_params, db, e, rows, procs, q, wlock, udt, hist>>

\* handle_undefined_codes(tc, **params): line 14 takes no keyword
main_call_error ==
    /\ pc = "main"
    /\ e <= Len(process_params)
    /\ process_params[e].run_flag = "Y"
    /\ json_loads(process_params[e].params).exc = ""
    /\ json_loads(process_params[e].params).obj # {}
    /\ Raise("TypeError", 143)
    /\ UNCHANGED <<process_params, db, e, rows, procs, q, wlock, udt, hist>>

main_call ==
    /\ pc = "main"
    /\ e <= Len(process_params)
    /\ process_params[e].run_flag = "Y"
    /\ json_loads(process_params[e].params).exc = ""
    /\ json_loads(process_params[e].params).obj = {}
    /\ pc' = "lookup"
    /\ calls' = Append(calls, [entry |-> e, params |-> json_loads(process_params[e].params).obj])
    /\ UNCHANGED <<process_params, db, error, e, rows, procs, q, wlock, udt, updated, attempts>>

(***************************************************************************)
(* handle_undefined_codes, lines 27-46.                                    *)
(***************************************************************************)
\* lines 27-39: connect, query code_source, fetch, close, create the queue
huc_lookup ==
    /\ pc = "lookup"
    /\ rows' = SelectRows(code_source)
    /\ pc' = IF SelectRows(code_source) = <<>> THEN "join" ELSE "start"
    /\ UNCHANGED <<process_params, db, error, e, procs, q, wlock, udt, hist>>

\* the lookup with its error logged and swallowed: the run goes on with
\* the rows fetched
huc_lookup_error_swallowed ==
    /\ pc = "lookup"
    /\ error' = [exc |-> exec_sql(TRUE), line |-> 36]
    /\ rows' = SelectRows(code_source)
    /\ pc' = IF SelectRows(code_source) = <<>> THEN "join" ELSE "start"
    /\ UNCHANGED <<process_params, db, e, procs, q, wlock, udt, hist>>

\* lines 27, 36: get_connection or exec_sql raises
huc_lookup_error ==
    /\ pc = "lookup"
    /\ Raise(exec_sql(TRUE), 36)
    /\ UNCHANGED <<process_params, db, e, rows, procs, q, wlock, udt, hist>>

\* lines 41-43: start the worker of the next row
huc_start ==
    /\ pc = "start"
    /\ LET k == Len(procs[e]) + 1
       IN  /\ procs' = [procs EXCEPT ![e] =
                  Append(@, [state |-> "started", row |-> rows[k], msg |-> NoMsg])]
           /\ pc' = IF k = Len(rows) THEN "join" ELSE "start"
    /\ UNCHANGED <<process_params, db, error, e, rows, q, wlock, udt, hist>>

\* line 44 left out: the loop of line 45 starts without waiting
huc_join_no_wait ==
    /\ pc = "join"
    /\ rows # <<>>
    /\ pc' = "drain"
    /\ UNCHANGED <<process_params, db, error, e, rows, procs, q, wlock, udt, hist>>

\* line 44: p is the worker started last
huc_join ==
    /\ pc = "join"
    /\ rows # <<>>
    /\ procs[e][Len(rows)].state \in Terminated
    /\ pc' = "drain"
    /\ UNCHANGED <<process_params, db, error, e, rows, procs, q, wlock, udt, hist>>

\* line 44 after a loop of no iterations: p was never assigned
huc_join_unbound ==
    /\ pc = "join"
    /\ rows = <<>>
    /\ Raise("UnboundLocalError", 44)
    /\ UNCHANGED <<process_params, db, e, rows, procs, q, wlock, udt, hist>>

\* lines 45-46: the queue is not empty, get a message and enter
\* update_dim_table; a message being written is received as it is written
huc_get ==
    /\ pc = "drain"
    /\ ~QEmpty(e)
    /\ LET msg == IF q[e] # <<>> THEN Head(q[e]) ELSE procs[e][wlock[e]].msg
       IN  /\ undef_codes' = msg
           /\ updated' = Append(updated, [inv |-> msg.inv, src |-> msg.src])
    /\ IF q[e] # <<>>
       THEN /\ q' = [q EXCEPT ![e] = Tail(@)]
            /\ UNCHANGED <<procs, wlock>>
       ELSE /\ procs' = [procs EXCEPT ![e][wlock[e]].state = "done"]
            /\ wlock' = [wlock EXCEPT ![e] = 0]
            /\ UNCHANGED q
    /\ pc' = IF (IF q[e] # <<>> THEN Head(q[e]) ELSE procs[e][wlock[e]].msg)
                    .undef_codes.bad_codes = <<>>
             THEN "drain" ELSE "update"
    /\ j' = 1
    /\ s' = 1
    /\ UNCHANGED <<process_params, db, error, e, rows, calls, attempts>>

\* line 45: q.empty(), handle_undefined_codes returns to main's loop
huc_return ==
    /\ pc = "drain"
    /\ QEmpty(e)
    /\ pc' = "main"
    /\ e' = e + 1
    /\ UNCHANGED <<process_params, db, error, rows, procs, q, wlock, udt, hist>>


(***************************************************************************)
(* get_undefined_codes, lines 60-84, run by worker k of invocation i.      *)
(***************************************************************************)
Workers == {w \in (1..Len(process_params)) \X (1..MaxMappings) : w[2] <= Len(procs[w[1]])}

\* line 75: exec_sql raises, the worker process dies with the exception
guc_query_error(i, k) ==
    /\ procs[i][k].state = "started"
    /\ exec_sql(QueryFails(procs[i][k].row)) # ""
    /\ procs' = [procs EXCEPT ![i][k].state = "failed"]
    /\ UNCHANGED <<process_params, db, pc, error, e, rows, q, wlock, udt, hist>>

\* get_undefined_codes without the test of line 77: an empty list is put
guc_no_rows_put_anyway(i, k) ==
    /\ procs[i][k].state = "started"
    /\ exec_sql(QueryFails(procs[i][k].row)) = ""
    /\ Fetchall(procs[i][k].row) = {<<>>}
    /\ procs' = [procs EXCEPT ![i][k].state = "buffered",
                             ![i][k].msg = [inv |-> i, src |-> k,
                                 undef_codes |-> Batch(procs[i][k].row, <<>>)]]
    /\ UNCHANGED <<process_params, db, pc, error, e, rows, q, wlock, udt, hist>>

\* lines 76-77: no row fetched, nothing is put and the worker ends
guc_no_rows(i, k) ==
    /\ procs[i][k].state = "started"
    /\ exec_sql(QueryFails(procs[i][k].row)) = ""
    /\ Fetchall(procs[i][k].row) = {<<>>}
    /\ procs' = [procs EXCEPT ![i][k].state = "done"]
    /\ UNCHANGED <<process_params, db, pc, error, e, rows, q, wlock, udt, hist>>

\* lines 76-84: the fetched codes, in the order the database returned
\* them, are put on the queue
guc_put(i, k) ==
    /\ procs[i][k].state = "started"
    /\ exec_sql(QueryFails(procs[i][k].row)) = ""
    /\ Fetchall(procs[i][k].row) # {<<>>}
    /\ \E bad_codes \in Fetchall(procs[i][k].row) :
          procs' = [procs EXCEPT ![i][k].state = "buffered",
                                 ![i][k].msg = [inv |-> i, src |-> k,
                                     undef_codes |-> Batch(procs[i][k].row, bad_codes)]]
    /\ UNCHANGED <<process_params, db, pc, error, e, rows, q, wlock, udt, hist>>

\* the feeder thread takes the write lock and writes the message; when the
\* pipe cannot take all of it the thread blocks holding the lock
q_feeder(i, k) ==
    /\ procs[i][k].state = "buffered"
    /\ wlock[i] = 0
    /\ IF Used(q[i]) + Size(procs[i][k].msg) <= PipeCap
       THEN /\ q' = [q EXCEPT ![i] = Append(@, procs[i][k].msg)]
            /\ procs' = [procs EXCEPT ![i][k].state = "done"]
            /\ UNCHANGED wlock
       ELSE /\ wlock' = [wlock EXCEPT ![i] = k]
            /\ procs' = [procs EXCEPT ![i][k].state = "writing"]
            /\ UNCHANGED q
    /\ UNCHANGED <<process_params, db, pc, error, e, rows, udt, hist>>

\* the reader made room: the blocked write completes and the worker ends
q_feeder_finish(i, k) ==
    /\ procs[i][k].state = "writing"
    /\ Used(q[i]) + Size(procs[i][k].msg) <= PipeCap
    /\ q' = [q EXCEPT ![i] = Append(@, procs[i][k].msg)]
    /\ wlock' = [wlock EXCEPT ![i] = 0]
    /\ procs' = [procs EXCEPT ![i][k].state = "done"]
    /\ UNCHANGED <<process_params, db, pc, error, e, rows, udt, hist>>

(***************************************************************************)
(* update_dim_table, lines 109-117.                                        *)
(***************************************************************************)
\* the loop of line 109 taking the codes from the end of the list
bad_code_from_end ==
    undef_codes.undef_codes.bad_codes[Len(undef_codes.undef_codes.bad_codes) + 1 - j]

bad_code == undef_codes.undef_codes.bad_codes[j]

Attempt(stmt, ok) ==
    [inv |-> undef_codes.inv, src |-> undef_codes.src, code |-> bad_code,
     sql |-> stmt, ok |-> ok]

\* lines 115-116 for bad_sql: insert the dimension row and commit
udt_insert_dim ==
    /\ pc = "update"
    /\ s = 1
    /\ exec_sql(InsertFails(undef_codes.undef_codes, bad_code)) = ""
    /\ ref' = [ref EXCEPT ![undef_codes.undef_codes.ref_table_name] =
                  Append(@, DimRow(undef_codes.undef_codes, bad_code))]
    /\ s' = 2
    /\ attempts' = Append(attempts, Attempt("bad_sql", TRUE))
    /\ UNCHANGED <<process_params, code_source, fact, unique, undefined_log, pc,
                   error, e, rows, procs, q, wlock, undef_codes, j, calls, updated>>

\* line 115 for bad_sql: exec_sql raises out of update_dim_table
udt_insert_error ==
    /\ pc = "update"
    /\ s = 1
    /\ exec_sql(InsertFails(undef_codes.undef_codes, bad_code)) # ""
    /\ Raise(exec_sql(InsertFails(undef_codes.undef_codes, bad_code)), 115)
    /\ attempts' = Append(attempts, Attempt("bad_sql", FALSE))
    /\ UNCHANGED <<process_params, db, e, rows, procs, q, wlock, udt, calls, updated>>

\* log_sql as an upsert: an audit row already there for the code gets the
\* new timestamp instead of a second row being inserted
udt_insert_log_upsert ==
    /\ pc = "update"
    /\ s = 2
    /\ LET new == LogRow(undef_codes.undef_codes, bad_code)
           same(x) == /\ x.table_name = new.table_name
                      /\ x.code_column = new.code_column
                      /\ x.code = new.code
       IN  undefined_log' =
              IF \E n \in 1..Len(undefined_log) : same(undefined_log[n])
              THEN [n \in 1..Len(undefined_log) |->
                       IF same(undefined_log[n])
                       THEN [undefined_log[n] EXCEPT !.timestamp = sysdate]
                       ELSE undefined_log[n]]
              ELSE Append(undefined_log, new)
    /\ attempts' = Append(attempts, Attempt("log_sql", TRUE))
    /\ IF j = Len(undef_codes.undef_codes.bad_codes)
       THEN /\ pc' = "drain"
            /\ UNCHANGED <<j, s>>
       ELSE /\ j' = j + 1
            /\ s' = 1
            /\ pc' = pc
    /\ UNCHANGED <<process_params, code_source, fact, ref, unique, error, e, rows,
                   procs, q, wlock, undef_codes, calls, updated>>

\* lines 115-116 for log_sql: insert the audit row and commit; after the
\* last code, line 117 and back to the loop of line 45
udt_insert_log ==
    /\ pc = "update"
    /\ s = 2
    /\ undefined_log' = Append(undefined_log, LogRow(undef_codes.undef_codes, bad_code))
    /\ attempts' = Append(attempts, Attempt("log_sql", TRUE))
    /\ IF j = Len(undef_codes.undef_codes.bad_codes)
       THEN /\ pc' = "drain"
            /\ UNCHANGED <<j, s>>
       ELSE /\ j' = j + 1
            /\ s' = 1
            /\ pc' = pc
    /\ UNCHANGED <<process_params, code_source, fact, ref, unique, error, e, rows,
                   procs, q, wlock, undef_codes, calls, updated>>

Next ==
    \/ main_return
    \/ main_skip
    \/ main_loads_error
    \/ main_call_error
    \/ main_call
    \/ huc_lookup
    \/ huc_lookup_error
    \/ huc_start
    \/ huc_join
    \/ huc_join_unbound
    \/ huc_get
    \/ huc_return
    \/ \E w \in Workers : guc_query_error(w[1], w[2])
    \/ \E w \in Workers : guc_no_rows(w[1], w[2])
    \/ \E w \in Workers : guc_put(w[1], w[2])
    \/ \E w \in Workers : q_feeder(w[1], w[2])
    \/ \E w \in Workers : q_feeder_finish(w[1], w[2])
    \/ udt_insert_dim
    \/ udt_insert_error
    \/ udt_insert_log

Spec == Init /\ [][Next]_vars


(***************************************************************************)
(* Vocabulary of the properties.                                           *)
(***************************************************************************)
Invocations == 1..Len(process_params)

\* handle_undefined_codes was called for entry i
Called(i) == \E n \in 1..Len(calls) : calls[n].entry = i

\* the call for entry i returned to main's loop without an exception
Returned(i) == Called(i) /\ e > i

\* main is over, by return or by an exception
MainEnded == pc \in {"exit", "error"}

\* worker k of invocation i called q.put
HasPut(i, k) == procs[i][k].msg # NoMsg

\* how often the message of worker k of invocation i entered update_dim_table
TimesUpdated(i, k) ==
    Cardinality({n \in 1..Len(updated) : updated[n] = [inv |-> i, src |-> k]})

\* the statements of one kind executed for one code of one message
Executed(i, k, code, stmt, ok) ==
    {n \in 1..Len(attempts) :
        attempts[n] = [inv |-> i, src |-> k, code |-> code, sql |-> stmt, ok |-> ok]}

(***************************************************************************)
(* C1  Fan-out completeness: when handle_undefined_codes has returned and  *)
(* each of its N workers has put a batch, every one of the N batches has   *)
(* been passed to update_dim_table exactly once.                           *)
(***************************************************************************)
C1_FanOutComplete ==
    \A i \in Invocations :
        (Returned(i) /\ \A k \in 1..Len(procs[i]) : HasPut(i, k))
            => \A k \in 1..Len(procs[i]) : TimesUpdated(i, k) = 1

(***************************************************************************)
(* C2  Join-all barrier: the supervisor is in the drain loop or in         *)
(* update_dim_table only when every worker it started has terminated.      *)
(***************************************************************************)
C2_JoinAllBarrier ==
    pc \in {"drain", "update"}
        => \A k \in 1..Len(procs[e]) : procs[e][k].state \in Terminated


(***************************************************************************)
(* C3  When main has returned, every bad_code of every batch a worker put  *)
(* has exactly one committed dimension insert and exactly one committed    *)
(* undefined_log insert (a run that raised is not a returned run).         *)
(***************************************************************************)
C3_EveryCodeInserted ==
    pc = "exit" =>
        \A w \in Workers :
            HasPut(w[1], w[2]) =>
                \A code \in Range(procs[w[1]][w[2]].msg.undef_codes.bad_codes) :
                    /\ Cardinality(Executed(w[1], w[2], code, "bad_sql", TRUE)) = 1
                    /\ Cardinality(Executed(w[1], w[2], code, "log_sql", TRUE)) = 1

\* the distinct non-null values of the fact column
FactValues(row) ==
    {fact[row.table_name][n][row.column_name] : n \in 1..Len(fact[row.table_name])} \ {NULL}

\* the values of the reference code column
RefCodes(row) ==
    {ref[row.ref_table_name][n][row.ref_code_column_name] :
        n \in 1..Len(ref[row.ref_table_name])}

Difference(row) == FactValues(row) \ RefCodes(row)

(***************************************************************************)
(* C4  A worker whose fact column holds a non-null value absent from the   *)
(* reference code column puts one batch when it runs, the batch's          *)
(* bad_codes holds each value of the difference exactly once and nothing   *)
(* else, and a worker that has put never puts again.                       *)
(***************************************************************************)
C4_DetectorBatch ==
    [][\A w \in Workers :
        LET old == procs[w[1]][w[2]]
            new == procs'[w[1]][w[2]]
        IN  /\ (/\ old.state = "started"
                /\ ~QueryFails(old.row)
                /\ Difference(old.row) # {}
                /\ new # old)
               => /\ new.state = "buffered"
                  /\ new.msg # NoMsg
                  /\ Range(new.msg.undef_codes.bad_codes) = Difference(old.row)
                  /\ Len(new.msg.undef_codes.bad_codes) = Cardinality(Difference(old.row))
            /\ old.msg # NoMsg => new.msg = old.msg /\ new.state # "started"]_vars

\* a batch of two codes from a fact column with repeated and NULL values
C4_Witness ==
    \E w \in Workers :
        /\ HasPut(w[1], w[2])
        /\ Len(procs[w[1]][w[2]].msg.undef_codes.bad_codes) = 2
        /\ Len(fact[procs[w[1]][w[2]].row.table_name]) > 2

\* nothing downstream of worker k of invocation i exists
Silent(i, k) ==
    /\ \A n \in 1..Len(q[i]) : q[i][n].src # k
    /\ wlock[i] # k
    /\ TimesUpdated(i, k) = 0
    /\ \A n \in 1..Len(attempts) : ~(attempts[n].inv = i /\ attempts[n].src = k)

(***************************************************************************)
(* C5  A worker whose non-null fact values all appear in the reference     *)
(* code column puts nothing when it runs, and for a worker that has put    *)
(* nothing no message is queued, no update_dim_table call is made and no   *)
(* dimension or undefined_log insert is executed.                          *)
(***************************************************************************)
C5_CleanMappingSilent ==
    [][\A w \in Workers :
        LET old == procs[w[1]][w[2]]
            new == procs'[w[1]][w[2]]
        IN  /\ (/\ old.state = "started"
                /\ ~QueryFails(old.row)
                /\ Difference(old.row) = {}
                /\ new # old)
               => new.state = "done" /\ new.msg = NoMsg
            /\ new.msg = NoMsg => Silent(w[1], w[2])']_vars

\* a clean worker has ended beside a sibling whose codes were inserted
C5_Witness ==
    \E w \in Workers :
        /\ procs[w[1]][w[2]].state = "done"
        /\ ~HasPut(w[1], w[2])
        /\ \E n \in 1..Len(attempts) : attempts[n].inv = w[1]

(***************************************************************************)
(* C6  Detection failure isolation: when a call of handle_undefined_codes  *)
(* has returned and one of its workers failed in its query, every other    *)
(* worker of the call has run to its end and the batch of each that put    *)
(* one has been passed to update_dim_table.                                *)
(***************************************************************************)
C6_DetectionFailureIsolated ==
    \A i \in Invocations :
        Returned(i) =>
            \A k \in 1..Len(procs[i]) :
                procs[i][k].state = "failed" =>
                    \A o \in 1..Len(procs[i]) \ {k} :
                        /\ procs[i][o].state \in Terminated
                        /\ HasPut(i, o) => TimesUpdated(i, o) = 1

(***************************************************************************)
(* C7  Insert failure isolation: when main is over, for every insert that  *)
(* failed, the dimension insert of every bad_code of the same batch has    *)
(* been executed and no batch is left on the queue of that call.           *)
(***************************************************************************)
C7_InsertFailureIsolated ==
    MainEnded =>
        \A n \in 1..Len(attempts) :
            ~attempts[n].ok =>
                /\ \A code \in Range(procs[attempts[n].inv][attempts[n].src]
                                        .msg.undef_codes.bad_codes) :
                      \E m \in 1..Len(attempts) :
                          /\ attempts[m].inv = attempts[n].inv
                          /\ attempts[m].src = attempts[n].src
                          /\ attempts[m].code = code
                          /\ attempts[m].sql = "bad_sql"
                /\ QEmpty(attempts[n].inv)

(***************************************************************************)
(* C8  An error of the mapping lookup ends the run: the exception leaves   *)
(* handle_undefined_codes and main, and in that call no worker is started, *)
(* no batch is queued or updated and no insert is executed.                *)
(***************************************************************************)
C8_LookupErrorAborts ==
    error.line = 36 =>
        /\ pc = "error"
        /\ procs[e] = <<>>
        /\ QEmpty(e)
        /\ \A n \in 1..Len(updated) : updated[n].inv # e
        /\ \A n \in 1..Len(attempts) : attempts[n].inv # e

\* the lookup of a second call fails after the first call inserted rows
C8_Witness ==
    /\ error.line = 36
    /\ e = 2
    /\ attempts # <<>>

(***************************************************************************)
(* C9  When main is over, all parameters parse and the database raised no  *)
(* error, handle_undefined_codes has been entered exactly once, with the   *)
(* parsed parameters, for each entry whose run_flag is 'Y', and not at all *)
(* for any other entry.                                                    *)
(***************************************************************************)
C9_EveryEnabledEntryInvoked ==
    (/\ MainEnded
     /\ error.exc # "DatabaseError"
     /\ \A i \in Invocations : json_loads(process_params[i].params).exc = "") =>
        \A i \in Invocations :
            LET mine == {n \in 1..Len(calls) : calls[n].entry = i}
            IN  IF process_params[i].run_flag = "Y"
                THEN /\ Cardinality(mine) = 1
                     /\ \A n \in mine : calls[n].params = json_loads(process_params[i].params).obj
                ELSE mine = {}

(***************************************************************************)
(* C10  When main is over, an entry with run_flag 'Y' whose parameters do  *)
(* not parse has not entered handle_undefined_codes, and main's loop has   *)
(* gone on to every later entry with run_flag 'Y'.                         *)
(***************************************************************************)
C10_MalformedParamsIsolated ==
    MainEnded =>
        \A i \in Invocations :
            (process_params[i].run_flag = "Y" /\ json_loads(process_params[i].params).exc # "")
                => /\ ~Called(i)
                   /\ \A o \in Invocations :
                         (o > i /\ process_params[o].run_flag = "Y") => e >= o

\* the log_sql statements executed so far, in order
LogAttempts == SelectSeq(attempts, LAMBDA a : a.sql = "log_sql")

\* update_dim_table is between bad_sql and log_sql of this code of this message
InFlight(i, k, code) ==
    /\ pc = "update"
    /\ s = 2
    /\ undef_codes.inv = i
    /\ undef_codes.src = k
    /\ bad_code = code

(***************************************************************************)
(* C11  The rows of undefined_log are, one for one and in order, the       *)
(* log_sql statements executed, each row's table_name, code_column and     *)
(* code are the ref_table_name and ref_code_column_name of the statement's *)
(* batch and the statement's code, and every dimension insert that         *)
(* succeeded for a code of a batch has exactly one log_sql statement for   *)
(* that code of that batch, once update_dim_table has executed the         *)
(* statement that follows the insert.                                      *)
(***************************************************************************)
C11_OneAuditRowPerInsert ==
    /\ Len(undefined_log) = Len(LogAttempts)
    /\ \A m \in 1..Len(LogAttempts) :
          LET a == LogAttempts[m]
              b == procs[a.inv][a.src].msg.undef_codes
          IN  /\ undefined_log[m].table_name = b.ref_table_name
              /\ undefined_log[m].code_column = b.ref_code_column_name
              /\ undefined_log[m].code = a.code
    /\ \A n \in 1..Len(attempts) :
          (attempts[n].sql = "bad_sql" /\ attempts[n].ok) =>
              LET a == attempts[n]
              IN  Cardinality(Executed(a.inv, a.src, a.code, "log_sql", TRUE))
                      = IF InFlight(a.inv, a.src, a.code) THEN 0 ELSE 1

\* two batches held the same code: the code has two audit rows
C11_Witness ==
    \E m, n \in 1..Len(undefined_log) :
        /\ m < n
        /\ undefined_log[m].code = undefined_log[n].code
        /\ undefined_log[m].table_name = undefined_log[n].table_name

\* update_dim_table ran to its end for the message of worker k of invocation i
Completed(i, k) ==
    /\ HasPut(i, k)
    /\ TimesUpdated(i, k) >= 1
    /\ \A code \in Range(procs[i][k].msg.undef_codes.bad_codes) :
          Executed(i, k, code, "log_sql", TRUE) # {}

(***************************************************************************)
(* C12  Once update_dim_table has run to its end for the batch of a        *)
(* mapping, the detection query for that mapping returns none of the       *)
(* batch's bad_codes, and a worker of a later invocation for the same      *)
(* mapping has put nothing.                                                *)
(***************************************************************************)
C12_DetectionAfterUpdateClean ==
    \A w \in Workers :
        Completed(w[1], w[2]) =>
            /\ \A bad_codes \in Fetchall(procs[w[1]][w[2]].row) :
                  Range(bad_codes) \cap Range(procs[w[1]][w[2]].msg.undef_codes.bad_codes) = {}
            /\ \A v \in Workers :
                  (v[1] > w[1] /\ procs[v[1]][v[2]].row = procs[w[1]][w[2]].row)
                      => ~HasPut(v[1], v[2])

\* the worker of a second invocation ran for a mapping whose batch the
\* first invocation inserted, and put nothing
C12_Witness ==
    \E w, v \in Workers :
        /\ Completed(w[1], w[2])
        /\ v[1] > w[1]
        /\ procs[v[1]][v[2]].row = procs[w[1]][w[2]].row
        /\ procs[v[1]][v[2]].state = "done"

\* every row of the old table is at its place and unchanged in the new one
Keeps(old, new) ==
    /\ Len(new) >= Len(old)
    /\ SubSeq(new, 1, Len(old)) = old

(***************************************************************************)
(* C13  In every step every row of every dimension table and of            *)
(* undefined_log stays in its table unchanged, and the fact tables and     *)
(* code_source do not change.                                              *)
(***************************************************************************)
C13_AppendOnly ==
    [][/\ \A t \in DOMAIN ref : Keeps(ref[t], ref'[t])
       /\ Keeps(undefined_log, undefined_log')
       /\ fact' = fact
       /\ code_source' = code_source]_vars

\* a code was inserted a second time into a table that already held rows
\* for it
C13_Witness ==
    /\ \E m, n \in 1..Len(undefined_log) :
          /\ m < n
          /\ undefined_log[m].code = undefined_log[n].code
          /\ undefined_log[n].timestamp > undefined_log[m].timestamp + 2
    /\ \E t \in DOMAIN ref : Len(ref[t]) >= 4

\* the statements executed for the message of worker k of invocation i
AttemptsOf(i, k) == SelectSeq(attempts, LAMBDA a : a.inv = i /\ a.src = k)

(***************************************************************************)
(* C14  In every state the statements executed for a batch are a prefix of *)
(* bad_sql, log_sql of its first code, bad_sql, log_sql of its second code *)
(* and so on in list order, all of them committed except possibly a        *)
(* failed bad_sql at the end; so a code with an audit row of the batch has *)
(* its dimension row, every code before a code with a statement has both,  *)
(* and at most one code has a dimension row without its audit row.         *)
(***************************************************************************)
C14_InsertOrder ==
    \A w \in Workers :
        HasPut(w[1], w[2]) =>
            LET codes == procs[w[1]][w[2]].msg.undef_codes.bad_codes
                mine == AttemptsOf(w[1], w[2])
                dim(c) == Executed(w[1], w[2], codes[c], "bad_sql", TRUE) # {}
                log(c) == Executed(w[1], w[2], codes[c], "log_sql", TRUE) # {}
            IN  /\ Len(mine) <= 2 * Len(codes)
                /\ \A n \in 1..Len(mine) :
                      /\ mine[n].code = codes[(n + 1) \div 2]
                      /\ mine[n].sql = IF n % 2 = 1 THEN "bad_sql" ELSE "log_sql"
                      /\ mine[n].ok \/ (n = Len(mine) /\ mine[n].sql = "bad_sql")
                /\ \A c \in 1..Len(codes) :
                      /\ log(c) => dim(c)
                      /\ dim(c) => \A b \in 1..(c - 1) : dim(b) /\ log(b)
                /\ Cardinality({c \in 1..Len(codes) : dim(c) /\ ~log(c)}) <= 1

\* between the two statements of the second code of a batch
C14_Witness ==
    /\ pc = "update"
    /\ j = 2
    /\ s = 2
    /\ Len(AttemptsOf(undef_codes.inv, undef_codes.src)) = 3

(***************************************************************************)
(* update_dim_table run by itself, twice on the same batch: the first run  *)
(* is message 1, the second run message 2; "drain" stands for a return of  *)
(* update_dim_table and "error" for an exception out of it.                *)
(***************************************************************************)
RerunBatches ==
    {Batch(MappingRecord(SourceRow("orders", "status_code", "status_dim", "Y")), bad_codes) :
        bad_codes \in {c \in SeqsUpTo({"X", "Y", "Z"}, MaxBatch) : c # <<>> /\ NoRepeat(c)}}

InitRerun ==
    /\ process_params = <<>>
    /\ code_source = <<>>
    /\ InitWarehouse
    /\ undefined_log = <<>>
    /\ pc = "update"
    /\ error = NoError
    /\ e = 1
    /\ rows = <<>>
    /\ procs = <<>>
    /\ q = <<>>
    /\ wlock = <<>>
    /\ \E b \in RerunBatches : undef_codes = [inv |-> 1, src |-> 1, undef_codes |-> b]
    /\ j = 1
    /\ s = 1
    /\ calls = <<>>
    /\ updated = <<[inv |-> 1, src |-> 1]>>
    /\ attempts = <<>>

\* the first run is over: update_dim_table is called again with its batch
udt_again ==
    /\ pc \in {"drain", "error"}
    /\ Len(updated) = 1
    /\ pc' = "update"
    /\ error' = NoError
    /\ undef_codes' = [undef_codes EXCEPT !.inv = 2]
    /\ j' = 1
    /\ s' = 1
    /\ updated' = Append(updated, [inv |-> 2, src |-> 1])
    /\ UNCHANGED <<process_params, db, e, rows, procs, q, wlock, calls, attempts>>

NextRerun ==
    \/ udt_insert_dim
    \/ udt_insert_error
    \/ udt_insert_log
    \/ udt_again

SpecRerun == InitRerun /\ [][NextRerun]_vars

(***************************************************************************)
(* C15  In the second run of update_dim_table on a batch whose reference   *)
(* table has a unique code column, no step changes a dimension table and   *)
(* every statement executed is an insert that fails.                       *)
(***************************************************************************)
C15_SecondRunAddsNothing ==
    [][(/\ Len(updated) = 2
        /\ unique[undef_codes.undef_codes.ref_table_name])
          => /\ ref' = ref
             /\ attempts' # attempts =>
                   /\ ~attempts'[Len(attempts')].ok
                   /\ attempts'[Len(attempts')].sql = "bad_sql"]_vars

\* the first run inserted two codes and their audit rows, the second run's
\* first insert failed
C15_Witness ==
    /\ Len(updated) = 2
    /\ unique[undef_codes.undef_codes.ref_table_name]
    /\ Len(attempts) = 5
    /\ attempts[5].inv = 2
    /\ ~attempts[5].ok
    /\ pc = "error"

(***************************************************************************)
(* C16  A message enters update_dim_table only from the loop of line 45,   *)
(* not while another message is inside update_dim_table, and only when     *)
(* every row fetched from code_source has its worker started and the       *)
(* worker started last has terminated.                                     *)
(***************************************************************************)
C16_UpdatesAfterJoin ==
    [][updated' # updated =>
          /\ pc = "drain"
          /\ Len(updated') = Len(updated) + 1
          /\ rows # <<>>
          /\ Len(procs[e]) = Len(rows)
          /\ procs[e][Len(rows)].state \in Terminated]_vars

\* update_dim_table is running while a worker started earlier still runs
C16_Witness ==
    /\ pc = "update"
    /\ Len(procs[e]) >= 2
    /\ procs[e][Len(procs[e])].state \in Terminated
    /\ \E k \in 1..Len(procs[e]) : procs[e][k].state \notin Terminated

(***************************************************************************)
(* C17  A call of handle_undefined_codes whose lookup returned no mapping  *)
(* record has, once it is over, returned to main's loop without an         *)
(* exception, having started no worker and executed no insert.             *)
(***************************************************************************)
C17_NoMappingsReturns ==
    \A i \in Invocations :
        (/\ Called(i)
         /\ SelectRows(code_source) = <<>>
         /\ e > i \/ (MainEnded /\ error.line # 36))
            => /\ Returned(i)
               /\ procs[i] = <<>>
               /\ \A n \in 1..Len(attempts) : attempts[n].inv # i

\* line 44 waits for a worker that cannot terminate before the pipe is
\* read: its message, or one written before it, does not fit the pipe, and
\* the pipe is read by the loop of line 45 only
JoinBlockedOnPut ==
    /\ pc = "join"
    /\ rows # <<>>
    /\ Len(procs[e]) = Len(rows)
    /\ procs[e][Len(rows)].state \in {"buffered", "writing"}
    /\ wlock[e] # 0

(***************************************************************************)
(* C18  handle_undefined_codes is never in the state where its join waits  *)
(* for a worker that waits for its batch to be taken off the queue, the    *)
(* state from which it cannot return.                                      *)
(***************************************************************************)
C18_NoJoinDeadlock == ~JoinBlockedOnPut

\* the reference table the statement attempts[n] inserts into
TableOf(n) == procs[attempts[n].inv][attempts[n].src].msg.undef_codes.ref_table_name

(***************************************************************************)
(* C19  Within one call of handle_undefined_codes no two bad_sql           *)
(* statements are executed for the same code and the same reference table. *)
(***************************************************************************)
C19_OneInsertPerTableAndCode ==
    \A m, n \in 1..Len(attempts) :
        (/\ attempts[m].sql = "bad_sql"
         /\ attempts[n].sql = "bad_sql"
         /\ attempts[m].inv = attempts[n].inv
         /\ attempts[m].code = attempts[n].code
         /\ TableOf(m) = TableOf(n))
            => m = n

\* the codes table t held before the first call, and the codes of the rows
\* and audit rows the calls added
InitialCodes(t) == {ref[t][n]["code"] : n \in {x \in 1..Len(ref[t]) : ref[t][x]["descr"] = "known"}}
InsertedCodes(t) == {ref[t][n]["code"] : n \in {x \in 1..Len(ref[t]) : ref[t][x]["descr"] # "known"}}
LoggedCodes(t) ==
    {undefined_log[n].code : n \in {x \in 1..Len(undefined_log) : undefined_log[x].table_name = t}}

\* what the detection query of a mapping returns before the first call
InitialDifference(row) ==
    IF QueryFails(row) THEN {} ELSE FactValues(row) \ InitialCodes(row.ref_table_name)

\* no insert can be rejected: no two mappings have an undefined code in
\* common for the same reference table with a unique code column
NoSharedCode ==
    \A a, b \in 1..Len(SelectRows(code_source)) :
        LET ra == SelectRows(code_source)[a]
            rb == SelectRows(code_source)[b]
        IN  (a < b /\ ra.ref_table_name = rb.ref_table_name
                   /\ InitialDifference(ra) \cap InitialDifference(rb) # {})
               => ~unique[ra.ref_table_name]

\* the rows added when every worker's batch reaches update_dim_table
ExpectedCodes(t) ==
    UNION {InitialDifference(SelectRows(code_source)[a]) :
              a \in {x \in 1..Len(SelectRows(code_source)) :
                        SelectRows(code_source)[x].ref_table_name = t}}

(***************************************************************************)
(* C20  When the one call of handle_undefined_codes of a run has returned  *)
(* and no insert could be rejected, the rows added to each dimension table *)
(* and the audit rows for it are those of the schedule in which every      *)
(* worker's batch is on the queue before the join returns: one for each    *)
(* undefined code of each mapping.  The outcome is the same for every      *)
(* schedule only if every schedule gives this one.                         *)
(***************************************************************************)
C20_ScheduleIndependent ==
    (/\ Len(process_params) = 1
     /\ Returned(1)
     /\ NoSharedCode)
        => \A t \in DOMAIN ref :
              /\ InsertedCodes(t) = ExpectedCodes(t)
              /\ LoggedCodes(t) = ExpectedCodes(t)

====
